---- MODULE Spec2Model ----
(***************************************************************************)
(* pb-nebula: certificate issuance, configuration generation and the       *)
(* record hooks of internal/sync (CA, network and host collections), and   *)
(* the address allocator of internal/ipam.                                 *)
(*                                                                         *)
(* The record store and its hook dispatch are PocketBase's: a request runs *)
(* the request hooks (validation), persists the record and then runs the   *)
(* after-success hooks; app.Save of an existing record persists it and     *)
(* runs the after-update-success hooks again, synchronously, inside the    *)
(* hook that called Save.  Every hook invocation is one action here; the   *)
(* hooks that are running are the frames of stack.                         *)
(*                                                                         *)
(* Time is counted in years.  Addresses are AddrBits wide (uint32 in the   *)
(* source); all address arithmetic is taken modulo 2^AddrBits.             *)
(***************************************************************************)
EXTENDS Integers, Sequences, FiniteSets, TLC

\* ------------------------------------------------------------- bounds
MaxOps == 5       \* external requests followed in one behaviour
MaxDepth == 2     \* nested hook passes followed before the stack is exhausted
MaxNow == 1       \* years the clock may advance
MaxUsed == 2      \* entries of the allocator's used list
AddrBits == 4     \* width of an address

\* ------------------------------------------------------------- program constants
DefaultCAValidityYears == 10
DefaultHostValidityYears == 1
LighthouseInterval == 60

\* ------------------------------------------------------------- value sets
CAIds == {"ca1"}
NetIds == {"n1"}
HostOrder == <<"h1", "h2">>      \* row order of the hosts collection
HostIds == {HostOrder[i] : i \in 1..Len(HostOrder)}

AddrSpace == 2 ^ AddrBits
Addrs == 0..(AddrSpace - 1)

Pow2(n) == 2 ^ n

\* A CIDR string, parsed: the address as written (host bits kept) and the prefix
\* length.  net.ParseCIDR returns the address and the masked network.
Cidr(a, b) == [addr |-> a, bits |-> b]
MaskedBase(c) == c.addr - (c.addr % Pow2(AddrBits - c.bits))
Contains(c, ip) == ip \in Addrs /\ ip - (ip % Pow2(AddrBits - c.bits)) = MaskedBase(c)

\* JSON texts of the groups field and what json.Unmarshal into []string gives.
GroupsNone == ""
GroupsWeb == "[\"web\"]"
GroupsBad == "web"
ParseGroupsOk(s) == s # GroupsBad
ParseGroups(s) == IF s = GroupsWeb THEN <<"web">> ELSE <<>>

\* JSON texts of a firewall field and what json.Unmarshal into
\* []map[string]interface{} gives.
FwNone == ""
FwSsh == "[{\"port\":\"22\",\"proto\":\"tcp\",\"groups\":[\"admin\"]}]"
FwBad == "{"
FwUntargeted ==
  "[{\"port\":\"22\",\"proto\":\"tcp\"},{\"port\":\"http\",\"proto\":\"gre\",\"host\":\"any\"}]"
ParseRulesOk(s) == s # FwBad
ParseRules(s) ==
  IF s = FwSsh THEN << [port |-> "22", proto |-> "tcp", host |-> "", groups |-> <<"admin">>] >>
  ELSE IF s = FwUntargeted
    THEN << [port |-> "22", proto |-> "tcp", host |-> "", groups |-> <<>>],
            [port |-> "http", proto |-> "gre", host |-> "any", groups |-> <<>>] >>
  ELSE <<>>

\* Public endpoints of lighthouses ("IP:PORT").
EndpointNone == ""
EndpointA == "1.2.3.4:4242"
PortOf(ep) == IF ep = EndpointA THEN 4242 ELSE 0     \* strconv.Atoi of the text after the last colon

Min(a, b) == IF a <= b THEN a ELSE b

\* ------------------------------------------------------------- records
\* A Nebula certificate (TBSCertificate, signed).  key is the public key; issuer
\* is the public key of the signing CA (0: self-signed or none).
NoCert ==
  [name |-> "", ip |-> -1, bits |-> 0, groups |-> <<>>, isCA |-> FALSE,
   notBefore |-> 0, notAfter |-> 0, key |-> 0, issuer |-> 0]

\* The YAML document of a host, by section.
NoConfig ==
  [doc |-> FALSE,
   pki |-> [ca |-> NoCert, cert |-> NoCert, key |-> 0],
   static_host_map |-> {},
   lighthouse |-> [am_lighthouse |-> FALSE, interval |-> 0, hosts |-> <<>>],
   listen |-> [host |-> "", port |-> 0],
   firewall |-> [outbound |-> <<>>, inbound |-> <<>>]]

\* ------------------------------------------------------------- internal/cert
\* GenerateCA: a fresh key pair k, a self-signed certificate valid for
\* validityYears from now.
GenerateCA(name, validityYears, now_, k) ==
  [CertificatePEM |-> [NoCert EXCEPT !.name = name, !.isCA = TRUE, !.notBefore = now_,
                                     !.notAfter = now_ + validityYears, !.key = k],
   PrivateKeyPEM |-> k,
   ExpiresAt |-> now_ + validityYears]

\* The requested expiry alone, as GenerateHostCert would compute it without the
\* comparison with CAExpiresAt.
HostExpiryUncapped(now_, validityYears, caExpiresAt) == now_ + validityYears

\* The expiry of a host certificate: the requested one, capped by the CA's.
HostExpiry(now_, validityYears, caExpiresAt) ==
  LET requestedExpiry == now_ + validityYears
  IN IF requestedExpiry > caExpiresAt THEN caExpiresAt ELSE requestedExpiry

\* GenerateHostCert as it would be if it handed back the key it signed with.
GenerateHostCertWithCAKey(params, now_, k) ==
  IF params.CACertPEM = NoCert THEN [err |-> "ca certificate"]
  ELSE IF params.CAPrivateKeyPEM = 0 THEN [err |-> "ca private key"]
  ELSE IF params.OverlayIP \notin Addrs THEN [err |-> "overlay ip"]
  ELSE LET expiresAt == HostExpiry(now_, params.ValidityYears, params.CAExpiresAt)
       IN [err |-> "",
           CertificatePEM |->
             [name |-> params.Hostname, ip |-> params.OverlayIP, bits |-> AddrBits,
              groups |-> params.Groups, isCA |-> FALSE, notBefore |-> now_,
              notAfter |-> expiresAt, key |-> k, issuer |-> params.CACertPEM.key],
           PrivateKeyPEM |-> params.CAPrivateKeyPEM,
           ExpiresAt |-> expiresAt]

\* GenerateHostCert: err is "" on success.  The CA certificate and key are parsed
\* first, then the key pair k is generated, then the overlay address is parsed.
GenerateHostCert(params, now_, k) ==
  IF params.CACertPEM = NoCert THEN [err |-> "ca certificate"]
  ELSE IF params.CAPrivateKeyPEM = 0 THEN [err |-> "ca private key"]
  ELSE IF params.OverlayIP \notin Addrs THEN [err |-> "overlay ip"]
  ELSE LET expiresAt == HostExpiry(now_, params.ValidityYears, params.CAExpiresAt)
       IN [err |-> "",
           CertificatePEM |->
             [name |-> params.Hostname, ip |-> params.OverlayIP, bits |-> AddrBits,
              groups |-> params.Groups, isCA |-> FALSE, notBefore |-> now_,
              notAfter |-> expiresAt, key |-> k, issuer |-> params.CACertPEM.key],
           PrivateKeyPEM |-> k,
           ExpiresAt |-> expiresAt]

\* ------------------------------------------------------------- internal/types
\* GetFirewallRules: the two rule lists of a network model, or an error.
GetFirewallRules(n) ==
  IF n.FirewallOutbound # "" /\ n.FirewallOutbound # "null" /\ ~ParseRulesOk(n.FirewallOutbound)
    THEN [err |-> TRUE, outbound |-> <<>>, inbound |-> <<>>]
  ELSE IF n.FirewallInbound # "" /\ n.FirewallInbound # "null" /\ ~ParseRulesOk(n.FirewallInbound)
    THEN [err |-> TRUE, outbound |-> <<>>, inbound |-> <<>>]
  ELSE [err |-> FALSE,
        outbound |-> ParseRules(n.FirewallOutbound),
        inbound |-> ParseRules(n.FirewallInbound)]

\* ------------------------------------------------------------- internal/config
DefaultOutbound == << [port |-> "any", proto |-> "any", host |-> "any", groups |-> <<>>] >>
\* An inbound default that lets everything in.
DefaultInboundOpen == << [port |-> "any", proto |-> "any", host |-> "any", groups |-> <<>>] >>
DefaultInbound == << [port |-> "any", proto |-> "icmp", host |-> "any", groups |-> <<>>] >>

\* lighthouses is a sequence of LighthouseInfo [OverlayIP, PublicHostPort].
buildStaticHostMap(lighthouses, isLighthouse) ==
  IF isLighthouse THEN {}
  ELSE {<<lighthouses[i].OverlayIP, lighthouses[i].PublicHostPort>> : i \in 1..Len(lighthouses)}

buildLighthouseConfig(lighthouses, isLighthouse) ==
  IF isLighthouse THEN [am_lighthouse |-> TRUE, interval |-> 0, hosts |-> <<>>]
  ELSE [am_lighthouse |-> FALSE, interval |-> LighthouseInterval,
        hosts |-> [i \in 1..Len(lighthouses) |-> lighthouses[i].OverlayIP]]

extractPort(publicHostPort, isLighthouse) ==
  IF ~isLighthouse \/ publicHostPort = "" THEN 0 ELSE PortOf(publicHostPort)

\* GenerateHostConfig(host, network, lighthouses): the document, or an error when
\* the firewall texts do not parse.
GenerateHostConfig(host, network, lighthouses) ==
  LET fw == GetFirewallRules(network)
      outbound == IF Len(fw.outbound) = 0 THEN DefaultOutbound ELSE fw.outbound
      inbound == IF Len(fw.inbound) = 0 THEN DefaultInbound ELSE fw.inbound
  IN IF fw.err THEN [err |-> TRUE, yaml |-> NoConfig]
     ELSE [err |-> FALSE,
           yaml |->
             [doc |-> TRUE,
              pki |-> [ca |-> host.CACertificate, cert |-> host.Certificate,
                       key |-> host.PrivateKey],
              static_host_map |-> buildStaticHostMap(lighthouses, host.IsLighthouse),
              lighthouse |-> buildLighthouseConfig(lighthouses, host.IsLighthouse),
              listen |-> [host |-> "0.0.0.0",
                          port |-> extractPort(host.PublicHostPort, host.IsLighthouse)],
              firewall |-> [outbound |-> outbound, inbound |-> inbound]]]

\* ------------------------------------------------------------- state
VARIABLES
  now,          \* the clock, in years
  nextKey,      \* the next key pair crypto/rand yields (each is fresh)
  cas,          \* the nebula_ca collection: id -> record
  networks,     \* the nebula_networks collection: id -> record
  hosts,        \* the nebula_hosts collection: id -> record
  eventFilter,  \* Options.EventFilter: the event types it returns false for
  stack,        \* the after-success hooks that are running, innermost first
  ops,          \* external requests made so far
  ext,          \* the last external request: what it was and the record before and after it
  last,         \* the last hook invocation: what it was given and how it ended
  ipCidr,       \* allocator: the CIDR text given
  ipUsed,       \* allocator: the used list given
  ipRes,        \* allocator: what the last call returned
  nodes,        \* the nodes collection of internal/hooks: id -> record
  creating,     \* node create requests whose hook has run and whose insert has not
  issued        \* issuance alone: the last call, what it was given and what it returned

syncVars == <<now, nextKey, cas, networks, hosts, eventFilter, stack, ops, ext, last>>
ipamVars == <<ipCidr, ipUsed, ipRes, nodes, creating, issued>>
vars == <<now, nextKey, cas, networks, hosts, eventFilter, stack, ops, ext, last,
          ipCidr, ipUsed, ipRes, nodes, creating, issued>>

NoIssue == [fn |-> "", ip |-> 0, bits |-> 0, groups |-> <<>>, allocated |-> FALSE]

NoHost ==
  [hostname |-> "", network_id |-> "", overlay_ip |-> -1, groups |-> "",
   validity_years |-> 0, is_lighthouse |-> FALSE, public_host_port |-> "",
   active |-> FALSE, email |-> "",
   certificate |-> NoCert, private_key |-> 0, ca_certificate |-> NoCert,
   expires_at |-> 0, config_yaml |-> NoConfig]

NoExt == [op |-> "", id |-> "", result |-> "", before |-> NoHost, after |-> NoHost]
NoLast ==
  [act |-> "", id |-> "", depth |-> 0, outcome |-> "", stage |-> "", pre |-> NoHost,
   ret |-> ""]

Frame(op, id, depth, fetched, rest) ==
  [op |-> op, id |-> id, depth |-> depth, fetched |-> fetched, rest |-> rest]

Idle == stack = <<>>

\* ------------------------------------------------------------- internal/ipam (validation)
\* ValidateCIDRFormat and ValidateNetworkCIDR: the text parses, is IPv4, and its
\* address is the network address.
ValidateNetworkCIDR(c) == c.addr \in Addrs /\ c.bits \in 0..AddrBits /\ c.addr = MaskedBase(c)

\* A validation that asks only for the network to exist.
ValidateHostIPAnywhere(N, hostIP, networkID) == networkID \in DOMAIN N

\* ValidateIPFormat and ValidateHostIP against the stored networks N.
ValidateHostIP(N, hostIP, networkID) ==
  /\ networkID \in DOMAIN N
  /\ hostIP \in Addrs
  /\ Contains(N[networkID].cidr_range, hostIP)

\* ------------------------------------------------------------- internal/ipam (allocator)
\* The texts NextAvailableIP is given.  A CIDR text is malformed ("bad"), IPv6 ("v6")
\* or IPv4 ("v4") with the address as written and the prefix length; an entry of the
\* used list is a bare address ("addr"), an address with a prefix length ("prefix"),
\* an IPv6 address ("v6") or a text that is neither ("bad").
CidrText(kind, a, b) == [kind |-> kind, addr |-> a, bits |-> b]
UsedText(kind, a, b) == [kind |-> kind, ip |-> a, bits |-> b]

\* usedMap: the IPv4 addresses of the entries that parse.
usedMap(usedIPs) == {e.ip : e \in {u \in usedIPs : u.kind \in {"addr", "prefix"}}}

\* A scan that keeps the last free offset instead of returning the first.
Highest(S) == CHOOSE x \in S : \A y \in S : x >= y

\* The first free offset the loop meets.
Lowest(S) == CHOOSE x \in S : \A y \in S : x <= y

NoCall == [kind |-> "none", ip |-> 0, bits |-> 0, used |-> {}]
Result(kind, a, b, usedIPs) == [kind |-> kind, ip |-> a, bits |-> b, used |-> usedIPs]

\* The loop's condition as i < size, which lets the last offset through.
LoopLimitInclusive(size) == size % AddrSpace

\* The loop's condition i < size-1, in the width of the address.
LoopLimit(size) == (size - 1) % AddrSpace

NextAvailableIP(cidrStr, usedIPs) ==
  IF cidrStr.kind = "bad" THEN Result("invalid", 0, 0, usedIPs)
  ELSE IF cidrStr.kind = "v6" THEN Result("ipv6", 0, 0, usedIPs)
  ELSE LET startIP == cidrStr.addr
           size == Pow2(AddrBits - cidrStr.bits) % AddrSpace
           unused == {i \in 1..(LoopLimit(size) - 1) :
                        (startIP + i) % AddrSpace \notin usedMap(usedIPs)}
       IN IF unused = {} THEN Result("exhausted", 0, 0, usedIPs)
          ELSE Result("ok", (startIP + Lowest(unused)) % AddrSpace, cidrStr.bits, usedIPs)

\* ------------------------------------------------------------- internal/sync
shouldHandleEvent(filter, eventType) == eventType \notin filter

recordToHostModel(record) ==
  [Hostname |-> record.hostname, OverlayIP |-> record.overlay_ip, Groups |-> record.groups,
   IsLighthouse |-> record.is_lighthouse, PublicHostPort |-> record.public_host_port,
   Certificate |-> record.certificate, PrivateKey |-> record.private_key,
   CACertificate |-> record.ca_certificate, ConfigYAML |-> record.config_yaml]

recordToNetworkModel(record) ==
  [CIDRRange |-> record.cidr_range, FirewallOutbound |-> record.firewall_outbound,
   FirewallInbound |-> record.firewall_inbound]

\* The stored hosts of a network, in row order.
HostsOfNetwork(H, networkID) ==
  LET InNet(h) == h \in DOMAIN H /\ H[h].network_id = networkID
  IN SelectSeq(HostOrder, InNet)

\* getLighthouses without the filter on active.
getLighthousesInactiveToo(H, networkID) ==
  LET IsLh(h) == h \in DOMAIN H /\ H[h].network_id = networkID /\ H[h].is_lighthouse
      ids == SelectSeq(HostOrder, IsLh)
  IN [i \in 1..Len(ids) |->
        [OverlayIP |-> H[ids[i]].overlay_ip, PublicHostPort |-> H[ids[i]].public_host_port]]

\* getLighthouses: the active lighthouse hosts of a network, as LighthouseInfo.
getLighthouses(H, networkID) ==
  LET IsLh(h) == /\ h \in DOMAIN H
                 /\ H[h].network_id = networkID
                 /\ H[h].is_lighthouse
                 /\ H[h].active
      ids == SelectSeq(HostOrder, IsLh)
  IN [i \in 1..Len(ids) |->
        [OverlayIP |-> H[ids[i]].overlay_ip, PublicHostPort |-> H[ids[i]].public_host_port]]

\* generateHostConfig as it would be if it drew a new key pair for the record too.
generateHostConfigRekeying(N, H, record) ==
  [err |-> FALSE,
   rec |-> [record EXCEPT !.private_key = @ + 1, !.certificate.key = @ + 1,
                          !.config_yaml.doc = TRUE]]

\* generateHostConfig as it would be if regenerating the configuration of a record
\* that has one rebuilt the record without its certificate fields.
generateHostConfigStripping(N, H, record) ==
  [err |-> FALSE,
   rec |-> IF record.config_yaml.doc
             THEN [record EXCEPT !.certificate = NoCert, !.private_key = 0]
             ELSE [record EXCEPT !.config_yaml.doc = TRUE]]

\* generateHostConfig: sets config_yaml on the record it is given (not stored yet).
generateHostConfig(N, H, record) ==
  IF record.network_id \notin DOMAIN N THEN [err |-> TRUE, rec |-> record]
  ELSE LET g == GenerateHostConfig(recordToHostModel(record),
                                   recordToNetworkModel(N[record.network_id]),
                                   getLighthouses(H, record.network_id))
       IN IF g.err THEN [err |-> TRUE, rec |-> record]
          ELSE [err |-> FALSE, rec |-> [record EXCEPT !.config_yaml = g.yaml]]

\* generateHostCertAndConfig: issues the certificate, sets the generated fields on
\* the record it is given, then generates the configuration.  stage names where it
\* failed; rec is the record in memory when it returned; issued tells whether a key
\* pair was drawn.
generateHostCertAndConfig(C, N, H, record, now_, k) ==
  IF record.network_id \notin DOMAIN N
    THEN [err |-> TRUE, stage |-> "network", issued |-> FALSE, rec |-> record]
  ELSE IF N[record.network_id].ca_id \notin DOMAIN C
    THEN [err |-> TRUE, stage |-> "ca", issued |-> FALSE, rec |-> record]
  ELSE IF record.groups # "" /\ record.groups # "null" /\ ~ParseGroupsOk(record.groups)
    THEN [err |-> TRUE, stage |-> "groups", issued |-> FALSE, rec |-> record]
  ELSE
    LET ca == C[N[record.network_id].ca_id]
        validityYears == IF record.validity_years = 0 THEN DefaultHostValidityYears
                         ELSE record.validity_years
        certResult == GenerateHostCert(
                        [Hostname |-> record.hostname, OverlayIP |-> record.overlay_ip,
                         Groups |-> ParseGroups(record.groups), ValidityYears |-> validityYears,
                         CACertPEM |-> ca.certificate, CAPrivateKeyPEM |-> ca.private_key,
                         CAExpiresAt |-> ca.expires_at], now_, k)
    IN IF certResult.err # ""
         THEN [err |-> TRUE, stage |-> "certificate", issued |-> FALSE, rec |-> record]
       ELSE
         LET withCert == [record EXCEPT !.certificate = certResult.CertificatePEM,
                                        !.private_key = certResult.PrivateKeyPEM,
                                        !.ca_certificate = ca.certificate,
                                        !.expires_at = certResult.ExpiresAt,
                                        !.validity_years =
                                           IF validityYears > 0 THEN validityYears ELSE @]
             cfg == generateHostConfig(N, H, withCert)
         IN [err |-> cfg.err, stage |-> IF cfg.err THEN "config" ELSE "",
             issued |-> TRUE, rec |-> cfg.rec]

\* generateCA: sets the generated fields on the CA record it is given.
generateCA(record, defaultYears, now_, k) ==
  LET validityYears == IF record.validity_years = 0 THEN defaultYears ELSE record.validity_years
      result == GenerateCA(record.name, validityYears, now_, k)
  IN [record EXCEPT !.certificate = result.CertificatePEM,
                    !.private_key = result.PrivateKeyPEM,
                    !.expires_at = result.ExpiresAt,
                    !.curve = "CURVE25519",
                    !.validity_years = IF validityYears > 0 THEN validityYears ELSE @]

\* ------------------------------------------------------------- requests
\* Values a client may send.
CAValidities == {0, 1}
CidrValues == {Cidr(8, 1), Cidr(8, 2), Cidr(9, 2)}
FwOutValues == {FwNone, FwBad, FwUntargeted}
FwInValues == {FwNone, FwSsh}
HostIPs == {9, 13}
GroupValues == {GroupsNone, GroupsWeb, GroupsBad}
HostValidities == {0, 2}
ValidityPatches == {1, 2}
Emails == {"a@x", "b@x"}
Renames == {"renamed"}
HostRequest(g, vy, lh, ep, preset) ==
  [groups |-> g, validity_years |-> vy, is_lighthouse |-> lh, public_host_port |-> ep,
   certificate |-> preset]
\* The bodies of the create requests followed: plain hosts, a lighthouse, a host
\* whose groups text is not JSON, a lighthouse without its endpoint, and a host sent
\* with a certificate.
HostRequests ==
  {HostRequest(g, vy, FALSE, EndpointNone, FALSE) : g \in {GroupsNone, GroupsWeb}, vy \in HostValidities}
    \cup {HostRequest(GroupsNone, 0, TRUE, EndpointA, FALSE),
          HostRequest(GroupsBad, 0, FALSE, EndpointNone, FALSE),
          HostRequest(GroupsNone, 0, TRUE, EndpointNone, FALSE),
          HostRequest(GroupsNone, 0, FALSE, EndpointNone, TRUE)}

Init ==
  /\ now = 0
  /\ nextKey = 1
  /\ cas = << >>
  /\ networks = << >>
  /\ hosts = << >>
  /\ eventFilter \in {{}, {"host_update"}, {"network_update"}, {"ca_create", "host_create"}}
  /\ stack = << >>
  /\ ops = 0
  /\ ext = NoExt
  /\ last = NoLast
  /\ ipCidr = CidrText("bad", 0, 0)
  /\ ipUsed = {}
  /\ ipRes = NoCall
  /\ nodes = << >>
  /\ creating = << >>
  /\ issued = NoIssue

\* The clock advances between requests.
Tick ==
  /\ Idle
  /\ now < MaxNow
  /\ now' = now + 1
  /\ UNCHANGED <<nextKey, cas, networks, hosts, eventFilter, stack, ops, ext, last>>
  /\ UNCHANGED ipamVars

\* POST nebula_ca.  The after-create hook of setupCAHooks generates the CA and saves
\* the record; no update hook is bound to the CA collection, so the Save ends there.
CACreate(id, vy) ==
  /\ Idle
  /\ ops < MaxOps
  /\ id \notin DOMAIN cas
  /\ LET record == [name |-> id, validity_years |-> vy, certificate |-> NoCert,
                    private_key |-> 0, expires_at |-> 0, curve |-> ""]
     IN cas' = (id :> generateCA(record, DefaultCAValidityYears, now, nextKey)) @@ cas
  /\ nextKey' = nextKey + 1
  /\ ops' = ops + 1
  /\ ext' = [NoExt EXCEPT !.op = "caCreate", !.id = id, !.result = "ok"]
  /\ last' = [NoLast EXCEPT !.act = "caAfterCreate", !.id = id, !.outcome = "saved"]
  /\ UNCHANGED <<now, networks, hosts, eventFilter, stack>>
  /\ UNCHANGED ipamVars

\* POST nebula_networks.  The create-request hook of setupNetworkHooks validates the
\* CIDR; the collection requires ca_id to name a stored CA.  No after-create hook
\* acts on a network.
NetworkCreate(id, cidr, caID, fwOut) ==
  /\ Idle
  /\ ops < MaxOps
  /\ id \notin DOMAIN networks
  /\ ops' = ops + 1
  /\ IF ValidateNetworkCIDR(cidr) /\ caID \in DOMAIN cas
       THEN /\ networks' = (id :> [cidr_range |-> cidr, ca_id |-> caID,
                                   firewall_outbound |-> fwOut,
                                   firewall_inbound |-> FwNone]) @@ networks
            /\ ext' = [NoExt EXCEPT !.op = "networkCreate", !.id = id, !.result = "ok"]
       ELSE /\ networks' = networks
            /\ ext' = [NoExt EXCEPT !.op = "networkCreate", !.id = id, !.result = "rejected"]
  /\ UNCHANGED <<now, nextKey, cas, hosts, eventFilter, stack, last>>
  /\ UNCHANGED ipamVars

\* The records a PATCH of one field of network record r can ask for.
NetworkPatches(r) ==
  ({[r EXCEPT !.cidr_range = c] : c \in CidrValues}
     \cup {[r EXCEPT !.firewall_outbound = f] : f \in FwOutValues}
     \cup {[r EXCEPT !.firewall_inbound = f] : f \in FwInValues}) \ {r}

\* PATCH nebula_networks.  The update-request hook validates the CIDR, the record is
\* stored, and the after-update hook of setupNetworkHooks starts.
NetworkUpdate(id) ==
  /\ Idle
  /\ ops < MaxOps
  /\ id \in DOMAIN networks
  /\ ops' = ops + 1
  /\ \E new \in NetworkPatches(networks[id]) :
       IF ValidateNetworkCIDR(new.cidr_range)
         THEN /\ networks' = [networks EXCEPT ![id] = new]
              /\ stack' = <<Frame("netUpdate", id, 0, FALSE, <<>>)>>
              /\ ext' = [NoExt EXCEPT !.op = "networkUpdate", !.id = id, !.result = "ok"]
         ELSE /\ UNCHANGED <<networks, stack>>
              /\ ext' = [NoExt EXCEPT !.op = "networkUpdate", !.id = id, !.result = "rejected"]
  /\ UNCHANGED <<now, nextKey, cas, hosts, eventFilter, last>>
  /\ UNCHANGED ipamVars

\* The request hooks that do not ask a lighthouse for its public_host_port.
HostAcceptedWithoutEndpoint(N, H, id, r) ==
  /\ ValidateHostIP(N, r.overlay_ip, r.network_id)
  /\ \A o \in DOMAIN H \ {id} :
        ~(H[o].network_id = r.network_id /\ H[o].overlay_ip = r.overlay_ip)
  /\ \A o \in DOMAIN H \ {id} : H[o].hostname # r.hostname

\* What the host request hooks of setupHostHooks and the collection's rules accept:
\* the IP parses and lies in the network, a lighthouse names its endpoint, no other
\* host of the network has the same overlay_ip and no other host the same hostname.
HostAccepted(N, H, id, r) ==
  /\ ValidateHostIP(N, r.overlay_ip, r.network_id)
  /\ ~(r.is_lighthouse /\ r.public_host_port = "")
  /\ \A o \in DOMAIN H \ {id} :
        ~(H[o].network_id = r.network_id /\ H[o].overlay_ip = r.overlay_ip)
  /\ \A o \in DOMAIN H \ {id} : H[o].hostname # r.hostname

\* A certificate a client sends with the record it creates.
ClientCert(id, ip) ==
  [NoCert EXCEPT !.name = id, !.ip = ip, !.bits = AddrBits, !.key = -1, !.issuer = -1]

\* The id the store gives the next host record.
NextHostId ==
  IF \E i \in 1..Len(HostOrder) : HostOrder[i] \notin DOMAIN hosts
    THEN HostOrder[CHOOSE i \in 1..Len(HostOrder) :
                     /\ HostOrder[i] \notin DOMAIN hosts
                     /\ \A j \in 1..(i - 1) : HostOrder[j] \in DOMAIN hosts]
    ELSE ""

\* POST nebula_hosts.  After validation the record is stored as sent and the
\* after-create hook starts.
HostCreate(id, networkID, ip, groups, vy, lighthouse, endpoint, preset) ==
  /\ Idle
  /\ ops < MaxOps
  /\ id \in HostIds \ DOMAIN hosts
  /\ ops' = ops + 1
  /\ LET r == [NoHost EXCEPT !.hostname = id, !.network_id = networkID, !.overlay_ip = ip,
                             !.groups = groups, !.validity_years = vy,
                             !.is_lighthouse = lighthouse, !.public_host_port = endpoint,
                             !.active = TRUE, !.email = "a@x",
                             !.certificate = IF preset THEN ClientCert(id, ip) ELSE NoCert]
     IN IF HostAccepted(networks, hosts, id, r)
          THEN /\ hosts' = (id :> r) @@ hosts
               /\ stack' = <<Frame("hostCreate", id, 0, TRUE, <<>>)>>
               /\ ext' = [op |-> "hostCreate", id |-> id, result |-> "ok",
                          before |-> NoHost, after |-> r]
          ELSE /\ UNCHANGED <<hosts, stack>>
               /\ ext' = [op |-> "hostCreate", id |-> id, result |-> "rejected",
                          before |-> NoHost, after |-> NoHost]
  /\ UNCHANGED <<now, nextKey, cas, networks, eventFilter, last>>
  /\ UNCHANGED ipamVars

\* The records a PATCH of one field of host record r can ask for.
HostPatches(r) ==
  ({[r EXCEPT !.groups = g] : g \in GroupValues}
     \cup {[r EXCEPT !.validity_years = v] : v \in ValidityPatches}
     \cup {[r EXCEPT !.is_lighthouse = b] : b \in BOOLEAN}
     \cup {[r EXCEPT !.public_host_port = e] : e \in {EndpointNone, EndpointA}}
     \cup {[r EXCEPT !.active = b] : b \in BOOLEAN}
     \cup {[r EXCEPT !.email = m] : m \in Emails}
     \cup {[r EXCEPT !.overlay_ip = a] : a \in HostIPs}
     \cup {[r EXCEPT !.hostname = n] : n \in Renames}) \ {r}

\* PATCH nebula_hosts.  After validation the record is stored and the after-update
\* hook starts.
HostUpdate(id) ==
  /\ Idle
  /\ ops < MaxOps
  /\ id \in DOMAIN hosts
  /\ ops' = ops + 1
  /\ \E new \in HostPatches(hosts[id]) :
       IF HostAccepted(networks, hosts, id, new)
         THEN /\ hosts' = [hosts EXCEPT ![id] = new]
              /\ stack' = <<Frame("hostUpdate", id, 0, TRUE, <<>>)>>
              /\ ext' = [op |-> "hostUpdate", id |-> id, result |-> "ok",
                         before |-> hosts[id], after |-> new]
         ELSE /\ UNCHANGED <<hosts, stack>>
              /\ ext' = [op |-> "hostUpdate", id |-> id, result |-> "rejected",
                         before |-> hosts[id], after |-> hosts[id]]
  /\ UNCHANGED <<now, nextKey, cas, networks, eventFilter, last>>
  /\ UNCHANGED ipamVars

\* ------------------------------------------------------------- hooks
Top == Head(stack)

\* Hooks none of which returns the error of a failed generation.
HookReturnsNext(act, outcome) == "next"

\* What a hook hands back to the request or Save that fired it: the after-create hook
\* returns the error of a failed generation ("return fmt.Errorf"); the after-update
\* hook of a host and the loop of the network hook log it as a warning and go on to
\* "return e.Next()".
HookReturns(act, outcome) ==
  IF act = "hostAfterCreate" /\ outcome = "failed" THEN "error" ELSE "next"

Done(act, id, depth, outcome, stage, pre) ==
  [act |-> act, id |-> id, depth |-> depth, outcome |-> outcome, stage |-> stage, pre |-> pre,
   ret |-> HookReturns(act, outcome)]

\* The after-create hook without its guard.
NeverHasCertificate(record) == FALSE

\* The guard of the after-create hook: the record already holds a certificate.
HasCertificate(record) == record.certificate # NoCert

\* A hook that saves the record whatever generation returned.
SaveAlways(H, id, r) == [H EXCEPT ![id] = r.rec]

\* A Save that also drops the configuration of every other host, for it to be
\* generated anew.
SaveAndResetPeers(H, id, r) ==
  [h \in DOMAIN H |-> IF h = id THEN r.rec ELSE [H[h] EXCEPT !.config_yaml = NoConfig]]

\* A hook's "if err != nil { return }" before its app.Save(record): the collection
\* after the hook has run generation with result r for record id.
SaveUnlessFailed(H, id, r) == IF r.err THEN H ELSE [H EXCEPT ![id] = r.rec]

\* The after-create hook of setupHostHooks.  What is left of a hook after its Save is
\* logging only, so the frame of the hook that Save starts takes its place.
OnHostAfterCreate ==
  /\ ~Idle
  /\ Top.op = "hostCreate"
  /\ LET id == Top.id
         record == hosts[id]
         r == generateHostCertAndConfig(cas, networks, hosts, record, now, nextKey)
     IN IF HasCertificate(record)
          THEN /\ stack' = Tail(stack)
               /\ last' = Done("hostAfterCreate", id, 0, "skipped", "", record)
               /\ UNCHANGED <<hosts, nextKey>>
        ELSE IF r.err
          THEN /\ stack' = Tail(stack)
               /\ last' = Done("hostAfterCreate", id, 0, "failed", r.stage, record)
               /\ nextKey' = IF r.issued THEN nextKey + 1 ELSE nextKey
               /\ hosts' = SaveUnlessFailed(hosts, id, r)
        ELSE /\ hosts' = SaveUnlessFailed(hosts, id, r)
             /\ stack' = <<Frame("hostUpdate", id, 1, TRUE, <<>>)>> \o Tail(stack)
             /\ last' = Done("hostAfterCreate", id, 0, "saved", "", record)
             /\ nextKey' = nextKey + 1
  /\ UNCHANGED <<now, cas, networks, eventFilter, ops, ext>>
  /\ UNCHANGED ipamVars

\* The after-update hook of setupHostHooks, for the record that was just stored.
\* depth counts the engine's own Saves this pass is nested in.
OnHostAfterUpdate ==
  /\ ~Idle
  /\ Top.op = "hostUpdate"
  /\ Top.depth < MaxDepth
  /\ LET id == Top.id
         depth == Top.depth
         record == hosts[id]
         g == generateHostConfig(networks, hosts, record)
     IN IF ~shouldHandleEvent(eventFilter, "host_update")
          THEN /\ stack' = Tail(stack)
               /\ last' = Done("hostAfterUpdate", id, depth, "filtered", "", record)
               /\ UNCHANGED hosts
        ELSE IF g.err
          THEN /\ stack' = Tail(stack)
               /\ last' = Done("hostAfterUpdate", id, depth, "failed", "config", record)
               /\ hosts' = SaveUnlessFailed(hosts, id, g)
        ELSE /\ hosts' = SaveUnlessFailed(hosts, id, g)
             /\ stack' = <<Frame("hostUpdate", id, depth + 1, TRUE, <<>>)>> \o Tail(stack)
             /\ last' = Done("hostAfterUpdate", id, depth, "saved", "", record)
  /\ UNCHANGED <<now, nextKey, cas, networks, eventFilter, ops, ext>>
  /\ UNCHANGED ipamVars

\* A chain of nested after-update passes that has not ended by depth MaxDepth: each
\* further pass is given the same record and the same collections as the one before
\* it, so none ends it, and the Go runtime aborts the process when the goroutine
\* stack is exhausted.  The collections keep what was stored.
StackOverflow ==
  /\ ~Idle
  /\ Top.op = "hostUpdate"
  /\ Top.depth >= MaxDepth
  /\ stack' = << >>
  /\ last' = Done("stackOverflow", Top.id, Top.depth, "aborted", "", hosts[Top.id])
  /\ UNCHANGED <<now, nextKey, cas, networks, hosts, eventFilter, ops, ext>>
  /\ UNCHANGED ipamVars

\* The after-update hook of setupNetworkHooks: the event filter and the query ...
NetworkFetch ==
  /\ ~Top.fetched
  /\ IF ~shouldHandleEvent(eventFilter, "network_update")
       THEN /\ stack' = Tail(stack)
            /\ last' = Done("networkAfterUpdate", Top.id, 0, "filtered", "", NoHost)
       ELSE /\ LET ids == HostsOfNetwork(hosts, Top.id)
                   found == [i \in 1..Len(ids) |-> [id |-> ids[i], rec |-> hosts[ids[i]]]]
               IN stack' = <<Frame("netUpdate", Top.id, 0, TRUE, found)>> \o Tail(stack)
            /\ last' = Done("networkAfterUpdate", Top.id, 0, "fetched", "", NoHost)
  /\ UNCHANGED hosts

\* ... one turn of its loop over the hosts found ...
NetworkRegenerate ==
  /\ Top.fetched
  /\ Top.rest # << >>
  /\ LET host == Head(Top.rest)
         g == generateHostConfig(networks, hosts, host.rec)
         onward == Frame("netUpdate", Top.id, 0, TRUE, Tail(Top.rest))
     IN IF g.err
          THEN /\ stack' = <<onward>> \o Tail(stack)
               /\ last' = Done("networkAfterUpdate", host.id, 0, "failed", "config", host.rec)
               /\ hosts' = SaveUnlessFailed(hosts, host.id, g)
          ELSE /\ hosts' = SaveUnlessFailed(hosts, host.id, g)
               /\ stack' = <<Frame("hostUpdate", host.id, 1, TRUE, <<>>), onward>> \o Tail(stack)
               /\ last' = Done("networkAfterUpdate", host.id, 0, "saved", "", host.rec)

\* ... and its return.
NetworkReturn ==
  /\ Top.fetched
  /\ Top.rest = << >>
  /\ stack' = Tail(stack)
  /\ last' = Done("networkAfterUpdate", Top.id, 0, "returned", "", NoHost)
  /\ UNCHANGED hosts

OnNetworkAfterUpdate ==
  /\ ~Idle
  /\ Top.op = "netUpdate"
  /\ \/ NetworkFetch
     \/ NetworkRegenerate
     \/ NetworkReturn
  /\ UNCHANGED <<now, nextKey, cas, networks, eventFilter, ops, ext>>
  /\ UNCHANGED ipamVars

Next ==
  \/ Tick
  \/ \E id \in CAIds, vy \in CAValidities : CACreate(id, vy)
  \/ \E id \in NetIds, cidr \in CidrValues, caID \in CAIds, fwOut \in FwOutValues :
        NetworkCreate(id, cidr, caID, fwOut)
  \/ \E id \in NetIds : NetworkUpdate(id)
  \/ \E networkID \in NetIds, ip \in HostIPs, req \in HostRequests :
        HostCreate(NextHostId, networkID, ip, req.groups, req.validity_years,
                   req.is_lighthouse, req.public_host_port, req.certificate)
  \/ \E id \in HostIds : HostUpdate(id)
  \/ OnHostAfterCreate
  \/ OnHostAfterUpdate
  \/ StackOverflow
  \/ OnNetworkAfterUpdate

Spec == Init /\ [][Next]_vars

\* ------------------------------------------------------------- properties
\* The hook pass that handled the last external host update has stored its result:
\* the hook now running is the one its Save started.
FirstPassSaved ==
  /\ ~Idle
  /\ ext.op = "hostUpdate"
  /\ ext.result = "ok"
  /\ Top.op = "hostUpdate"
  /\ Top.id = ext.id
  /\ Top.depth = 1
  /\ last.act = "hostAfterUpdate"
  /\ last.outcome = "saved"

\* C1: a pass of the host update hook that was started by the engine's own Save
\* (depth 1 or more) regenerates nothing and writes nothing, so the writes caused by
\* one external mutation end with the first of them.
C1_ReentrantPassIsStable ==
  (last.act = "hostAfterUpdate" /\ last.depth >= 1) => last.outcome # "saved"

\* C2: a host certificate issued with requested validity V under a CA expiring at E
\* expires at min(now + V, E), and in every state every issued host's expires_at
\* (and its certificate's notAfter) is at most that of the CA that signed it.
C2_ValidityChain ==
  /\ (last.act = "hostAfterCreate" /\ last.outcome = "saved")
       => LET V == IF last.pre.validity_years = 0 THEN DefaultHostValidityYears
                   ELSE last.pre.validity_years
              E == cas[networks[last.pre.network_id].ca_id].expires_at
          IN /\ hosts[last.id].expires_at = Min(now + V, E)
             /\ hosts[last.id].certificate.notAfter = Min(now + V, E)
  /\ \A h \in DOMAIN hosts : \A c \in DOMAIN cas :
       (hosts[h].certificate # NoCert /\ hosts[h].certificate.issuer = cas[c].certificate.key)
         => /\ hosts[h].expires_at <= cas[c].expires_at
            /\ hosts[h].certificate.notAfter <= cas[c].certificate.notAfter

\* A host was just issued a certificate whose requested expiry lay beyond the CA's.
C2_IssuedCapped ==
  /\ last.act = "hostAfterCreate"
  /\ last.outcome = "saved"
  /\ LET V == IF last.pre.validity_years = 0 THEN DefaultHostValidityYears
              ELSE last.pre.validity_years
         E == cas[networks[last.pre.network_id].ca_id].expires_at
     IN now + V > E /\ hosts[last.id].expires_at = E

\* C3: when an external host update changed groups or validity_years and the engine
\* has handled it, the stored certificate and private key differ from those before
\* the update.
C3_CertFieldChangeReissues ==
  (FirstPassSaved /\ (ext.before.groups # ext.after.groups
                        \/ ext.before.validity_years # ext.after.validity_years))
    => /\ hosts[ext.id].certificate # ext.before.certificate
       /\ hosts[ext.id].private_key # ext.before.private_key

\* The last external host update changed is_lighthouse or public_host_port and
\* neither groups nor validity_years.
ConfigOnlyChange ==
  /\ ext.op = "hostUpdate"
  /\ ext.result = "ok"
  /\ ext.before.groups = ext.after.groups
  /\ ext.before.validity_years = ext.after.validity_years
  /\ \/ ext.before.is_lighthouse # ext.after.is_lighthouse
     \/ ext.before.public_host_port # ext.after.public_host_port

\* C4: after an external host update that changed only configuration-only fields,
\* the host's certificate, private key, CA certificate and expiration are those it
\* had before the update, and once the engine has handled the update the stored
\* configuration is the one of the updated fields around the same certificate.
C4_ConfigOnlyUpdateKeepsCertificate ==
  ConfigOnlyChange
    => /\ hosts[ext.id].certificate = ext.before.certificate
       /\ hosts[ext.id].private_key = ext.before.private_key
       /\ hosts[ext.id].ca_certificate = ext.before.ca_certificate
       /\ hosts[ext.id].expires_at = ext.before.expires_at
       /\ FirstPassSaved
            => LET cfg == hosts[ext.id].config_yaml
               IN /\ cfg.doc
                  /\ cfg.lighthouse.am_lighthouse = ext.after.is_lighthouse
                  /\ cfg.listen.port =
                       extractPort(ext.after.public_host_port, ext.after.is_lighthouse)
                  /\ cfg.pki.cert = ext.before.certificate
                  /\ cfg.pki.key = ext.before.private_key

\* An issued host's configuration-only update has been handled and its stored
\* configuration changed.
C4_ConfigRegenerated ==
  /\ ConfigOnlyChange
  /\ FirstPassSaved
  /\ ext.before.certificate # NoCert
  /\ hosts[ext.id].config_yaml # ext.before.config_yaml

\* C5: after an external host update that changed only email or the active flag, the
\* engine's hook generates nothing and does not save the record.
C5_StableUpdateWritesNothing ==
  (/\ ext.op = "hostUpdate"
   /\ ext.result = "ok"
   /\ \/ ext.before.email # ext.after.email
      \/ ext.before.active # ext.after.active
   /\ last.act = "hostAfterUpdate"
   /\ last.id = ext.id
   /\ last.pre = ext.after)
    => last.outcome # "saved"

\* C6: the creation handler issues only for a record without a certificate: run
\* for a record that holds one it draws no key and stores nothing; run for a record
\* without one, whatever it stores carries the key pair drawn in that run.
C6_CreateIssuesOnlyWithoutCertificate ==
  [][(~Idle /\ Top.op = "hostCreate")
       => IF hosts[Top.id].certificate # NoCert
            THEN hosts' = hosts /\ nextKey' = nextKey /\ last'.outcome = "skipped"
            ELSE \/ hosts' = hosts
                 \/ /\ hosts'[Top.id].private_key = nextKey
                    /\ hosts'[Top.id].certificate.key = nextKey
                    /\ nextKey' = nextKey + 1]_vars

\* The creation handler has run for a record that already held a certificate.
C6_CreateSkipped ==
  /\ last.act = "hostAfterCreate"
  /\ last.outcome = "skipped"
  /\ last.pre.certificate # NoCert
  /\ hosts[last.id] = last.pre

\* C7: a hook run in which certificate issuance or configuration generation fails
\* stores nothing: every host record is exactly what it was before the run.
C7_FailureStoresNothing ==
  [][(~Idle /\ last'.outcome = "failed") => hosts' = hosts]_vars

\* Creation failed at configuration generation, after the certificate had been set
\* on the record in memory; the stored record has none of the generated fields.
C7_FailedAfterIssuance ==
  /\ last.act = "hostAfterCreate"
  /\ last.outcome = "failed"
  /\ last.stage = "config"
  /\ hosts[last.id] = last.pre
  /\ hosts[last.id].certificate = NoCert

\* C8: once the handling of a network update has ended, every active host of the
\* network holds the configuration generated from the network as updated (and no
\* host's certificate or key was touched by it).
C8_FanOutReachesEveryActiveHost ==
  (/\ Idle
   /\ ext.op = "networkUpdate"
   /\ ext.result = "ok"
   /\ shouldHandleEvent(eventFilter, "network_update"))
    => \A h \in DOMAIN hosts :
         LET g == generateHostConfig(networks, hosts, hosts[h])
         IN (hosts[h].network_id = ext.id /\ hosts[h].active /\ ~g.err)
              => hosts[h].config_yaml = g.rec.config_yaml

C13_HookNeverStripsCertificate ==
  [][~Idle =>
       \A h \in DOMAIN hosts :
         (hosts[h].certificate # NoCert /\ hosts[h].private_key # 0)
           => /\ h \in DOMAIN hosts'
              /\ hosts'[h].certificate # NoCert
              /\ hosts'[h].private_key # 0]_vars

\* A hook was given a host that held a certificate and a private key, and stored it.
C13_HookWroteIssuedHost ==
  /\ last.act \in {"hostAfterUpdate", "networkAfterUpdate"}
  /\ last.outcome = "saved"
  /\ last.pre.certificate # NoCert
  /\ last.pre.private_key # 0
  /\ hosts[last.id].config_yaml # last.pre.config_yaml

RulesGiven(dir) ==
  LET n == networks[hosts[last.id].network_id]
  IN ParseRules(IF dir = "outbound" THEN n.firewall_outbound ELSE n.firewall_inbound)

ValidFirewallRule(rule) ==
  /\ rule.host # "" \/ rule.groups # <<>>
  /\ rule.port \in {"any", "22", "80-443"}
  /\ rule.proto \in {"tcp", "udp", "icmp", "any"}

\* C16: no stored configuration holds a firewall rule that has neither a host nor a
\* group set, or whose port or protocol is not a valid one.
C16_NoInvalidRuleInAConfiguration ==
  \A h \in DOMAIN hosts :
    LET fw == hosts[h].config_yaml.firewall
    IN /\ \A i \in 1..Len(fw.outbound) : ValidFirewallRule(fw.outbound[i])
       /\ \A i \in 1..Len(fw.inbound) : ValidFirewallRule(fw.inbound[i])

\* The address lies in the block of the CIDR.
InCidr(c, ip) ==
  LET size == Pow2(AddrBits - c.bits)
      base == c.addr - (c.addr % size)
  IN base <= ip /\ ip < base + size

\* C17: a host create or update request that was accepted names a stored network
\* whose CIDR holds the host's overlay IP; one that was rejected stored nothing and
\* started no hook.
C17_AcceptedOnlyInsideCidr ==
  ext.op \in {"hostCreate", "hostUpdate"}
    => /\ ext.result = "ok"
            => /\ ext.after.network_id \in DOMAIN networks
               /\ InCidr(networks[ext.after.network_id].cidr_range, ext.after.overlay_ip)
       /\ ext.result = "rejected"
            => /\ Idle
               /\ ext.op = "hostCreate" => ext.id \notin DOMAIN hosts
               /\ ext.op = "hostUpdate" => hosts[ext.id] = ext.before

\* An update of a host whose overlay IP is outside the CIDR its network now has was
\* rejected.
C17_RejectedOutsideCidr ==
  /\ ext.op = "hostUpdate"
  /\ ext.result = "rejected"
  /\ ~InCidr(networks[ext.before.network_id].cidr_range, ext.before.overlay_ip)
  /\ ~ext.before.is_lighthouse

\* C18: every stored lighthouse host has a public endpoint, and a rejected update
\* leaves the stored record as it was.
C18_LighthouseHasEndpoint ==
  /\ \A h \in DOMAIN hosts : hosts[h].is_lighthouse => hosts[h].public_host_port # ""
  /\ (ext.op = "hostUpdate" /\ ext.result = "rejected") => hosts[ext.id] = ext.before

\* An update that would have made a host without endpoint a lighthouse was rejected:
\* it is the only host, every address a request can name is in its network and it is
\* no lighthouse, so nothing else rejects an update of it.
C18_LighthouseWithoutEndpointRejected ==
  /\ ext.op = "hostUpdate"
  /\ ext.result = "rejected"
  /\ DOMAIN hosts = {ext.id}
  /\ \A a \in HostIPs : InCidr(networks[ext.before.network_id].cidr_range, a)
  /\ ~ext.before.is_lighthouse
  /\ ext.before.public_host_port = ""
  /\ ~hosts[ext.id].is_lighthouse

\* C20: the private key of a CA is in no host record and in no configuration: the
\* private key a host holds is the one of its own certificate, its configuration
\* carries that key, and the CA field of a host holds a CA's certificate.
C20_CAKeyStaysOnTheCA ==
  \A h \in DOMAIN hosts :
    LET host == hosts[h]
    IN /\ \A c \in DOMAIN cas :
            /\ host.private_key # cas[c].private_key
            /\ host.config_yaml.pki.key # cas[c].private_key
       /\ host.private_key # 0 => host.private_key = host.certificate.key
       /\ host.config_yaml.doc => host.config_yaml.pki.key = host.private_key
       /\ host.ca_certificate # NoCert
            => \E c \in DOMAIN cas : host.ca_certificate = cas[c].certificate

\* A host was issued a certificate by a CA and holds a configuration with its key.
C20_HostIssuedByCA ==
  \E h \in DOMAIN hosts, c \in DOMAIN cas :
    /\ cas[c].private_key # 0
    /\ hosts[h].certificate.issuer = cas[c].certificate.key
    /\ hosts[h].private_key # 0
    /\ hosts[h].config_yaml.doc
    /\ hosts[h].config_yaml.pki.ca = cas[c].certificate

\* C21: the hostname and overlay_ip stored on a host that holds a certificate are
\* the name and the address of that certificate.
C21_IdentityMatchesCertificate ==
  \A h \in DOMAIN hosts :
    hosts[h].certificate # NoCert
      => /\ hosts[h].certificate.name = hosts[h].hostname
         /\ hosts[h].certificate.ip = hosts[h].overlay_ip

\* The event type of the hook that ran last.
LastEventType ==
  CASE last.act = "caAfterCreate" -> "ca_create"
    [] last.act = "hostAfterCreate" -> "host_create"
    [] last.act = "hostAfterUpdate" -> "host_update"
    [] last.act = "networkAfterUpdate" -> "network_update"
    [] OTHER -> ""

\* C22: a hook whose event type the event filter returns false for generates nothing
\* and writes nothing.
C22_FilterGatesEveryEvent ==
  LastEventType \in eventFilter => last.outcome \in {"filtered", "skipped"}

\* C25: no step of a hook changes a field the classification of an update reads:
\* groups, validity_years, is_lighthouse and public_host_port of a host, and the
\* firewall rules of a network.
C25_HooksLeaveClassifiedFields ==
  [][~Idle =>
       /\ networks' = networks
       /\ \A h \in DOMAIN hosts :
            /\ hosts'[h].groups = hosts[h].groups
            /\ hosts'[h].validity_years = hosts[h].validity_years
            /\ hosts'[h].is_lighthouse = hosts[h].is_lighthouse
            /\ hosts'[h].public_host_port = hosts[h].public_host_port]_vars

\* C27 as stated: whenever no hook is running, the configuration stored for a host
\* that is no lighthouse lists exactly the active lighthouses of its network.
C27_ConfigurationsAreFresh ==
  Idle =>
    \A h \in DOMAIN hosts :
      (hosts[h].config_yaml.doc /\ ~hosts[h].is_lighthouse)
        => LET listed == hosts[h].config_yaml.lighthouse.hosts
           IN {listed[i] : i \in 1..Len(listed)} =
                {hosts[l].overlay_ip : l \in {o \in DOMAIN hosts :
                                                 /\ hosts[o].network_id = hosts[h].network_id
                                                 /\ hosts[o].is_lighthouse
                                                 /\ hosts[o].active}}

\* C27: a hook of a host writes the record it was fired for and no other: the
\* configuration of every other host stays as it was last generated.
C27_HostHookWritesItsOwnRecord ==
  [][(~Idle /\ Top.op \in {"hostCreate", "hostUpdate"})
       => \A h \in DOMAIN hosts : h # Top.id => hosts'[h] = hosts[h]]_vars

\* No hook is running, a lighthouse of the network is active and the configuration
\* of another host of the network, generated before, lists none.
C27_StaleConfiguration ==
  /\ Idle
  /\ \E h, l \in DOMAIN hosts :
       /\ hosts[l].is_lighthouse
       /\ hosts[l].active
       /\ hosts[l].config_yaml.doc
       /\ hosts[h].network_id = hosts[l].network_id
       /\ ~hosts[h].is_lighthouse
       /\ hosts[h].config_yaml.doc
       /\ hosts[h].config_yaml.lighthouse.hosts = <<>>

\* C29: the overlay IP of every stored host lies in the CIDR range of its network.
C29_EveryHostInsideItsNetwork ==
  \A h \in DOMAIN hosts :
    InCidr(networks[hosts[h].network_id].cidr_range, hosts[h].overlay_ip)

\* C30: a host that stores a configuration stores a certificate and a private key.
C30_ConfigurationOnlyForIssuedHost ==
  \A h \in DOMAIN hosts :
    hosts[h].config_yaml.doc
      => (hosts[h].certificate # NoCert /\ hosts[h].private_key # 0)

\* ------------------------------------------------------------- the CA collection alone
\* The names CA records are created with.  The collection's only index is the unique
\* one on name, which CACreate's guard is.
CANames == {"ca1", "ca2", "ca3"}

NextCA ==
  \/ Tick
  \/ \E id \in CANames, vy \in CAValidities : CACreate(id, vy)

SpecCA == Init /\ [][NextCA]_vars

\* C19: at most one CA record is stored.
C19_AtMostOneCA == Cardinality(DOMAIN cas) <= 1

\* ------------------------------------------------------------- the allocator alone
\* Inputs of NextAvailableIP: every IPv4 CIDR text of the address width, a malformed
\* one and an IPv6 one; used lists of at most MaxUsed entries.
CidrTexts ==
  {CidrText("v4", a, b) : a \in Addrs, b \in 0..AddrBits}
    \cup {CidrText("bad", 0, 0), CidrText("v6", 0, 0)}
UsedTexts ==
  {UsedText("addr", a, 0) : a \in Addrs}
    \cup {UsedText("prefix", a, AddrBits - 2) : a \in {1, AddrSpace - 1}}
    \cup {UsedText("bad", 0, 0), UsedText("v6", 0, 0)}

InitIpam ==
  /\ now = 0
  /\ nextKey = 1
  /\ cas = << >>
  /\ networks = << >>
  /\ hosts = << >>
  /\ eventFilter = {}
  /\ stack = << >>
  /\ ops = 0
  /\ ext = NoExt
  /\ last = NoLast
  /\ ipCidr \in CidrTexts
  /\ ipUsed = {}
  /\ ipRes = NoCall
  /\ nodes = << >>
  /\ creating = << >>
  /\ issued = NoIssue

\* An address already stored on a record of the pool.
IpamUse(e) ==
  /\ Cardinality(ipUsed) < MaxUsed
  /\ e \notin ipUsed
  /\ ipUsed' = ipUsed \cup {e}
  /\ ipRes' = NoCall
  /\ UNCHANGED <<ipCidr, nodes, creating, issued>>
  /\ UNCHANGED syncVars

\* onNodeCreate, part B: the addresses stored are collected, NextAvailableIP is
\* called and what it returns ("ip/bits") is stored on the new record.
IpamAllocate ==
  /\ Cardinality(ipUsed) <= MaxUsed
  /\ LET r == NextAvailableIP(ipCidr, ipUsed)
     IN /\ ipRes' = r
        /\ ipUsed' = IF r.kind = "ok" THEN ipUsed \cup {UsedText("prefix", r.ip, r.bits)}
                     ELSE ipUsed
  /\ UNCHANGED <<ipCidr, nodes, creating, issued>>
  /\ UNCHANGED syncVars

NextIpam ==
  \/ \E e \in UsedTexts : IpamUse(e)
  \/ IpamAllocate

SpecIpam == InitIpam /\ [][NextIpam]_vars

\* The network and broadcast addresses of an IPv4 CIDR, and its usable addresses.
NetworkAddress(c) == c.addr - (c.addr % Pow2(AddrBits - c.bits))
BroadcastAddress(c) == NetworkAddress(c) + Pow2(AddrBits - c.bits) - 1
Usable(c) == {a \in Addrs : NetworkAddress(c) < a /\ a < BroadcastAddress(c)}

\* C9: for an IPv4 CIDR with a prefix shorter than the last two and a used list
\* that leaves a usable address free, NextAvailableIP returns an address that is
\* not in the used list and is neither the network nor the broadcast address of
\* the CIDR, and called again with that address added it returns another.
C9_ReturnsFreshUsableAddress ==
  (/\ ipRes.kind # "none"
   /\ ipCidr.kind = "v4"
   /\ ipCidr.bits < AddrBits - 1
   /\ ~(Usable(ipCidr) \subseteq usedMap(ipRes.used)))
    => /\ ipRes.kind = "ok"
       /\ ipRes.ip \notin usedMap(ipRes.used)
       /\ ipRes.ip # NetworkAddress(ipCidr)
       /\ ipRes.ip # BroadcastAddress(ipCidr)
       /\ LET again == NextAvailableIP(ipCidr, ipRes.used \cup {UsedText("addr", ipRes.ip, 0)})
          IN ~(again.kind = "ok" /\ again.ip = ipRes.ip)

\* C10: for an IPv4 CIDR, NextAvailableIP returns an address or the exhausted
\* error; it returns the error exactly when every offset in 1..size-2 from the
\* CIDR's address is used, hence always for the two longest prefixes.
C10_ExhaustedExactlyWhenFull ==
  (ipRes.kind # "none" /\ ipCidr.kind = "v4")
    => LET size == Pow2(AddrBits - ipCidr.bits)
           full == \A i \in 1..(size - 2) :
                     (ipCidr.addr + i) % AddrSpace \in usedMap(ipRes.used)
       IN /\ ipRes.kind \in {"ok", "exhausted"}
          /\ ipRes.kind = "exhausted" <=> full
          /\ ipCidr.bits >= AddrBits - 1 => ipRes.kind = "exhausted"

\* The allocator was called for a CIDR of the second longest prefix with a used
\* list that is not empty, and for a longer CIDR all of whose offsets are used.
C10_ExhaustedCases ==
  /\ ipRes.kind = "exhausted"
  /\ ipCidr.kind = "v4"
  /\ ipRes.used # {}
  /\ \/ ipCidr.bits = AddrBits - 1
     \/ ipCidr.bits = AddrBits - 2

\* C24: the address NextAvailableIP returns is the CIDR's address plus k, in the
\* width of an address, where k is the smallest offset in 1..size-2 whose address is
\* not an entry of the used list that parses; the entries that do not parse change
\* nothing.
C24_LowestFreeOffset ==
  (ipRes.kind = "ok" /\ ipCidr.kind = "v4")
    => LET size == Pow2(AddrBits - ipCidr.bits)
           parsed == {e \in ipRes.used : e.kind \in {"addr", "prefix"}}
           taken == {e.ip : e \in parsed}
           At(k) == (ipCidr.addr + k) % AddrSpace
       IN /\ \E k \in 1..(size - 2) :
               /\ ipRes.ip = At(k)
               /\ At(k) \notin taken
               /\ \A j \in 1..(k - 1) : At(j) \in taken
          /\ NextAvailableIP(ipCidr, parsed).ip = ipRes.ip
          /\ NextAvailableIP(ipCidr, ipRes.used) = ipRes

\* The allocator was given a list with an entry that does not parse and the first
\* offset taken, and returned the second.
C24_SkippedTakenOffset ==
  /\ ipRes.kind = "ok"
  /\ \E e \in ipRes.used : e.kind = "bad"
  /\ (ipCidr.addr + 1) % AddrSpace \in usedMap(ipRes.used)
  /\ ipRes.ip = (ipCidr.addr + 2) % AddrSpace

\* C26: every address NextAvailableIP returns lies in the block of the CIDR it was
\* given, from its network address to its broadcast address.
C26_ResultInsideCidr ==
  (ipRes.kind = "ok" /\ ipCidr.kind = "v4")
    => /\ NetworkAddress(ipCidr) <= ipRes.ip
       /\ ipRes.ip <= BroadcastAddress(ipCidr)

\* ------------------------------------------------------------- internal/hooks (node creation)
\* Node create requests run concurrently: the create-request hook of one (onNodeCreate)
\* and the insert that follows its e.Next() are not one transaction, so the hook of
\* another request can run between them.  The authority of the requests exists and
\* its cidr is ipCidr; a request gives an ip_address or leaves it empty.
NodeReqs == {"r1", "r2", "r3"}
NoIPAddress == UsedText("empty", 0, 0)
NodeIPs == {NoIPAddress, UsedText("addr", 1, 0)}
NodeCidrs == {CidrText("v4", 0, AddrBits - 2), CidrText("v4", 8, AddrBits - 3),
              CidrText("v4", 4, AddrBits - 1)}

InitNodes ==
  /\ now = 0
  /\ nextKey = 1
  /\ cas = << >>
  /\ networks = << >>
  /\ hosts = << >>
  /\ eventFilter = {}
  /\ stack = << >>
  /\ ops = 0
  /\ ext = NoExt
  /\ last = NoLast
  /\ ipCidr \in NodeCidrs
  /\ ipUsed = {}
  /\ ipRes = NoCall
  /\ nodes = << >>
  /\ creating = << >>
  /\ issued = NoIssue

\* onNodeCreate up to its e.Next(): with no ip_address given, the addresses of the
\* authority's stored nodes are read and NextAvailableIP picks one (part B); the
\* request ends with the error when the allocator fails.  Parts C and D set the key,
\* certificate and config fields of the record, which no address depends on.
onNodeCreate(r, currentIP) ==
  /\ r \notin DOMAIN creating
  /\ r \notin DOMAIN nodes
  /\ LET usedIPs == {nodes[n].ip_address : n \in DOMAIN nodes}
         res == NextAvailableIP(ipCidr, usedIPs)
     IN IF currentIP # NoIPAddress
        THEN /\ creating' = creating @@ (r :> [ip_address |-> currentIP])
             /\ ipRes' = NoCall
        ELSE /\ ipRes' = res
             /\ creating' = IF res.kind = "ok"
                             THEN creating @@
                                    (r :> [ip_address |-> UsedText("prefix", res.ip, res.bits)])
                             ELSE creating
  /\ UNCHANGED <<ipCidr, ipUsed, nodes, issued>>
  /\ UNCHANGED syncVars

\* The insert after e.Next(): the nodes collection has no index on ip_address and no
\* hook compares it with the stored ones, so the record is stored as it is.
NodeInsert(r) ==
  /\ r \in DOMAIN creating
  /\ nodes' = nodes @@ (r :> creating[r])
  /\ creating' = [q \in DOMAIN creating \ {r} |-> creating[q]]
  /\ UNCHANGED <<ipCidr, ipUsed, ipRes, issued>>
  /\ UNCHANGED syncVars

NextNodes ==
  \/ \E r \in NodeReqs, ip \in NodeIPs : onNodeCreate(r, ip)
  \/ \E r \in NodeReqs : NodeInsert(r)

SpecNodes == InitNodes /\ [][NextNodes]_vars

\* C11: no two stored nodes of the authority hold the same address, whatever the
\* order in which concurrent create requests read the stored addresses and insert.
C11_NoTwoNodesShareAnAddress ==
  \A a, b \in DOMAIN nodes :
    a # b => usedMap({nodes[a].ip_address}) # usedMap({nodes[b].ip_address})

\* ------------------------------------------------------------- issuance alone
\* GenerateAuthority: a self-signed CA whose network is the CIDR given; valid for
\* 87600 hours, ten years.
AuthorityValidityYears == 10
GenerateAuthority(name, cidr, now_, k) ==
  IF cidr.kind # "v4" THEN [err |-> "invalid cidr"]
  ELSE [err |-> "",
        CertPEM |-> [NoCert EXCEPT !.name = name, !.ip = cidr.addr, !.bits = cidr.bits,
                                   !.isCA = TRUE, !.notBefore = now_,
                                   !.notAfter = now_ + AuthorityValidityYears, !.key = k],
        KeyPEM |-> k]

\* GenerateNode as it would be if it embedded the address alone.
GenerateNodeSingleAddress(caCertPEM, caKeyPEM, name, ip, groups, now_, k) ==
  IF ip.kind # "prefix" THEN [err |-> "invalid node ip"]
  ELSE [err |-> "",
        CertPEM |-> [name |-> name, ip |-> ip.ip, bits |-> AddrBits, groups |-> groups,
                     isCA |-> FALSE, notBefore |-> now_, notAfter |-> caCertPEM.notAfter,
                     key |-> k, issuer |-> caCertPEM.key],
        KeyPEM |-> k]

\* GenerateNode: the ip text is parsed as a prefix and embedded as it is, with the
\* prefix length it was written with; the certificate ends with the CA's (a second
\* before it, which the clock of the model does not tell apart).
GenerateNode(caCertPEM, caKeyPEM, name, ip, groups, now_, k) ==
  IF ip.kind # "prefix" THEN [err |-> "invalid node ip"]
  ELSE IF caKeyPEM = 0 THEN [err |-> "ca key"]
  ELSE IF caCertPEM = NoCert THEN [err |-> "ca cert"]
  ELSE IF caCertPEM.notAfter < now_ THEN [err |-> "ca certificate is expired"]
  ELSE [err |-> "",
        CertPEM |-> [name |-> name, ip |-> ip.ip, bits |-> ip.bits, groups |-> groups,
                     isCA |-> FALSE, notBefore |-> now_, notAfter |-> caCertPEM.notAfter,
                     key |-> k, issuer |-> caCertPEM.key],
        KeyPEM |-> k]

\* Inputs: the CIDR of the authority or network, the overlay address of a host (one
\* text does not parse), the ip_address of a node as a client gives it, the groups.
IssueCidrs == {CidrText("v4", a, b) : a \in {0, 8, 12}, b \in 1..(AddrBits - 2)}
OverlayTexts == Addrs \cup {-1}
NodeIPTexts ==
  {NoIPAddress, UsedText("addr", 1, 0), UsedText("prefix", 1, AddrBits),
   UsedText("prefix", 9, AddrBits - 1)}
IssueGroups == {<<>>, <<"web">>}

InitIssue ==
  /\ now = 0
  /\ nextKey = 1
  /\ cas = << >>
  /\ networks = << >>
  /\ hosts = << >>
  /\ eventFilter = {}
  /\ stack = << >>
  /\ ops = 0
  /\ ext = NoExt
  /\ last = NoLast
  /\ ipCidr \in IssueCidrs
  /\ ipUsed = {}
  /\ ipRes = NoCall
  /\ nodes = << >>
  /\ creating = << >>
  /\ issued = NoIssue

\* generateHostCertAndConfig's call of GenerateHostCert for a host of a network whose
\* CA was generated with the default validity.
IssueHost(overlayIP, groups, vy) ==
  LET ca == GenerateCA("ca1", DefaultCAValidityYears, now, nextKey)
      res == GenerateHostCert(
               [Hostname |-> "h1", OverlayIP |-> overlayIP, Groups |-> groups,
                ValidityYears |-> vy, CACertPEM |-> ca.CertificatePEM,
                CAPrivateKeyPEM |-> ca.PrivateKeyPEM, CAExpiresAt |-> ca.ExpiresAt],
               now, nextKey + 1)
  IN /\ issued' = [fn |-> "GenerateHostCert", ip |-> overlayIP, bits |-> ipCidr.bits,
                    groups |-> groups, allocated |-> FALSE, res |-> res]
     /\ UNCHANGED <<ipCidr, ipUsed, ipRes, nodes, creating>>
     /\ UNCHANGED syncVars

\* onNodeCreate's parts B and C for the first node of an authority: the address is
\* the one given or the one NextAvailableIP returns, and GenerateNode is called
\* with that text.
IssueNode(currentIP, groups) ==
  LET authority == GenerateAuthority("a1", ipCidr, now, nextKey)
      newIP == NextAvailableIP(ipCidr, {})
      text == IF currentIP # NoIPAddress THEN currentIP
              ELSE UsedText("prefix", newIP.ip, newIP.bits)
      res == GenerateNode(authority.CertPEM, authority.KeyPEM, "r1", text, groups,
                          now, nextKey + 1)
  IN /\ currentIP = NoIPAddress => newIP.kind = "ok"
     /\ issued' = [fn |-> "GenerateNode", ip |-> text.ip, bits |-> ipCidr.bits,
                    groups |-> groups, allocated |-> currentIP = NoIPAddress, res |-> res]
     /\ UNCHANGED <<ipCidr, ipUsed, ipRes, nodes, creating>>
     /\ UNCHANGED syncVars

NextIssue ==
  \/ \E a \in OverlayTexts, g \in IssueGroups, vy \in HostValidities \cup {DefaultHostValidityYears} :
        IssueHost(a, g, vy)
  \/ \E t \in NodeIPTexts, g \in IssueGroups : IssueNode(t, g)

SpecIssue == InitIssue /\ [][NextIssue]_vars

\* The certificate of the last call that issued one.
IssuedCert ==
  IF issued.fn = "GenerateHostCert" THEN issued.res.CertificatePEM ELSE issued.res.CertPEM

\* C23 as stated: every certificate issued embeds the address it was issued for
\* with the mask of a single address, and the groups it was issued for.
C23_EmbedsSingleAddress ==
  (issued.fn # "" /\ issued.res.err = "")
    => /\ IssuedCert.ip = issued.ip
       /\ IssuedCert.bits = AddrBits
       /\ IssuedCert.groups = issued.groups

\* C23: a certificate issued by GenerateHostCert embeds the overlay address with the
\* mask of a single address and the groups; one issued by GenerateNode embeds the
\* address with the prefix length its ip text was written with, which for an
\* allocated address is the prefix length of the authority's CIDR, and the groups.
C23_EmbedsAddressAsIssued ==
  (issued.fn # "" /\ issued.res.err = "")
    => /\ IssuedCert.ip = issued.ip
       /\ IssuedCert.groups = issued.groups
       /\ ~IssuedCert.isCA
       /\ issued.fn = "GenerateHostCert" => IssuedCert.bits = AddrBits
       /\ (issued.fn = "GenerateNode" /\ issued.allocated) => IssuedCert.bits = issued.bits

\* A node was issued a certificate for an allocated address, with the mask of the
\* authority's CIDR.
C23_NodeWithAuthorityMask ==
  /\ issued.fn = "GenerateNode"
  /\ issued.allocated
  /\ issued.res.err = ""
  /\ issued.res.CertPEM.bits < AddrBits
  /\ issued.res.CertPEM.groups = <<"web">>

\* ------------------------------------------------------------- a network that changes its CA
\* Two CA records and a network whose ca_id is patched from one to the other while
\* hosts of the network hold certificates.
RelinkCAs == {"ca1", "ca2"}
RelinkCidr == Cidr(8, 1)

\* PATCH nebula_networks with another ca_id.  The update-request hook of
\* setupNetworkHooks validates cidr_range, the relation field requires a stored CA,
\* the record is stored and the after-update hook starts.
NetworkRelink(id, caID) ==
  /\ Idle
  /\ ops < MaxOps
  /\ id \in DOMAIN networks
  /\ caID \in DOMAIN cas
  /\ caID # networks[id].ca_id
  /\ ValidateNetworkCIDR(networks[id].cidr_range)
  /\ ops' = ops + 1
  /\ networks' = [networks EXCEPT ![id].ca_id = caID]
  /\ stack' = <<Frame("netUpdate", id, 0, FALSE, <<>>)>>
  /\ ext' = [NoExt EXCEPT !.op = "networkUpdate", !.id = id, !.result = "ok"]
  /\ UNCHANGED <<now, nextKey, cas, hosts, eventFilter, last>>
  /\ UNCHANGED ipamVars

NextRelink ==
  \/ \E id \in RelinkCAs : CACreate(id, 0)
  \/ \E id \in NetIds, caID \in RelinkCAs : NetworkCreate(id, RelinkCidr, caID, FwNone)
  \/ \E id \in NetIds, caID \in RelinkCAs : NetworkRelink(id, caID)
  \/ \E networkID \in NetIds, ip \in HostIPs :
        HostCreate(NextHostId, networkID, ip, GroupsNone, 0, FALSE, EndpointNone, FALSE)
  \/ \E id \in HostIds : HostUpdate(id)
  \/ OnHostAfterCreate
  \/ OnHostAfterUpdate
  \/ StackOverflow
  \/ OnNetworkAfterUpdate

SpecRelink == Init /\ [][NextRelink]_vars

\* C28: whenever no hook is running, the ca_certificate of a host that was issued a
\* certificate, and the pki.ca of its configuration, are the certificate of the CA
\* that the host's network refers to.
C28_CACertificateOfTheNetwork ==
  Idle =>
    \A h \in DOMAIN hosts :
      (hosts[h].private_key # 0 /\ hosts[h].ca_certificate # NoCert)
        => LET ca == cas[networks[hosts[h].network_id].ca_id]
           IN /\ hosts[h].ca_certificate = ca.certificate
              /\ hosts[h].config_yaml.doc => hosts[h].config_yaml.pki.ca = ca.certificate

====
